---- MODULE Spec2Model ----
(***************************************************************************)
(* Model of src/src/factorio-data/history.ts: the undo / redo history of   *)
(* the blueprint editor.  The module-level state of history.ts             *)
(* (s_HistoryIndex, s_HistoryEntries, s_Transaction) and the targets the   *)
(* callers mutate through it (a record with one nested record, and a Map)  *)
(* are the variables; every exported function is one action.               *)
(***************************************************************************)
EXTENDS Integers, Sequences, FiniteSets, TLC

VARIABLES
    heap,              \* the record targets: object reference -> own properties
    tmap,              \* the Map target: key -> value, DOMAIN = the keys present
    s_HistoryIndex,    \* history.ts:186
    s_HistoryEntries,  \* history.ts:189
    s_Transaction,     \* history.ts:192
    ret,               \* outcome of the last call: which function, threw or returned, value
    console,           \* the lines the last call wrote with console.log
    emitted,           \* the emit callbacks the last call invoked, in order
    nCalls,            \* number of calls made so far that built an action or an entry
    scen               \* the caller's position in a scripted call sequence, and what it noted

vars == <<heap, tmap, s_HistoryIndex, s_HistoryEntries, s_Transaction,
          ret, console, emitted, nCalls, scen>>

(***************************************************************************)
(* Bounds of the model.                                                    *)
(***************************************************************************)
MaxCalls == 3

(***************************************************************************)
(* JavaScript values.  A value is undefined, a primitive, or a reference   *)
(* to one of the two record objects of the heap.                           *)
(***************************************************************************)
Undef == "undefined"
Prims == {"x", "y"}
RootRef == "#o"
SubRef == "#n"
Refs == {RootRef, SubRef}

\* the own properties of an object, as a function from the keys present
Props(h, r) == h[r]

\* f with key k bound to v (obj[k] = v, Map.set)
Put(f, k, v) == [j \in (DOMAIN f) \cup {k} |-> IF j = k THEN v ELSE f[j]]

\* f without key k (delete obj[k], Map.delete)
Del(f, k) == [j \in (DOMAIN f) \ {k} |-> f[j]]

\* IValueInfo<V>
ValueInfo(v, e) == [value |-> v, exists |-> e]

\* IHistoryData; a call that omits the argument passes undefined
NoData == [type |-> Undef, entity_number |-> 0]
HistoryData(t, n) == [type |-> t, entity_number |-> n]

\* the description of an entry; a call that omits the argument passes undefined
NoText == "<undefined>"

\* HistoryValue
New == "New"
Old == "Old"

(***************************************************************************)
(* The value path accessor, history.ts:321-351.  Each operator returns a   *)
(* record whose field threw tells whether the JavaScript evaluation raised *)
(* a TypeError (a property read of, or a method call on, undefined; an     *)
(* assignment to a property of a primitive in a strict-mode module).       *)
(***************************************************************************)

\* obj[k] does not throw: obj is not undefined
Readable(obj) == obj # Undef

\* the value of obj[k] for a readable obj
PropValue(h, obj, k) ==
    IF obj \in Refs /\ k \in DOMAIN Props(h, obj) THEN Props(h, obj)[k] ELSE Undef

RECURSIVE s_GetValue(_, _, _)
s_GetValue(h, obj, path) ==
    IF Len(path) = 1
    THEN IF obj = Undef
         THEN [threw |-> TRUE, value |-> Undef, exists |-> FALSE]
         ELSE IF obj \in Refs /\ path[1] \in DOMAIN Props(h, obj)
              THEN [threw |-> FALSE, value |-> Props(h, obj)[path[1]], exists |-> TRUE]
              ELSE [threw |-> FALSE, value |-> Undef, exists |-> FALSE]
    ELSE IF ~Readable(obj)
         THEN [threw |-> TRUE, value |-> Undef, exists |-> FALSE]
         ELSE s_GetValue(h, PropValue(h, obj, path[1]), Tail(path))

RECURSIVE s_SetValue(_, _, _, _)
s_SetValue(h, obj, path, value) ==
    IF Len(path) = 1
    THEN IF obj \in Refs
         THEN [threw |-> FALSE,
               heap |-> [h EXCEPT ![obj] = Put(Props(h, obj), path[1], value.value)]]
         ELSE [threw |-> TRUE, heap |-> h]
    ELSE IF ~Readable(obj)
         THEN [threw |-> TRUE, heap |-> h]
         ELSE s_SetValue(h, PropValue(h, obj, path[1]), Tail(path), value)

RECURSIVE s_DeleteValue(_, _, _)
s_DeleteValue(h, obj, path) ==
    IF Len(path) = 1
    THEN IF obj = Undef
         THEN [threw |-> TRUE, heap |-> h]
         ELSE IF obj \in Refs
              THEN [threw |-> FALSE,
                    heap |-> [h EXCEPT ![obj] = Del(Props(h, obj), path[1])]]
              ELSE [threw |-> FALSE, heap |-> h]
    ELSE IF ~Readable(obj)
         THEN [threw |-> TRUE, heap |-> h]
         ELSE s_DeleteValue(h, PropValue(h, obj, path[1]), Tail(path))

(***************************************************************************)
(* The targets as one value, threaded through the apply chain: the heap of *)
(* records, the Map, and the trace of emit callbacks invoked.              *)
(***************************************************************************)
Target == [heap |-> heap, tmap |-> tmap, emitted |-> <<>>]

\* the outcome of a step of the apply chain: whether it threw, and the targets it left
Outcome(threw, T) == [threw |-> threw, T |-> T]

\* the targets with the heap an accessor call left
WithHeap(T, w) == Outcome(w.threw, [T EXCEPT !.heap = w.heap])

(***************************************************************************)
(* class HistoryAction, history.ts:73-122.  The closure m_Apply captures   *)
(* the target and the path (updateValue) or the Map and the key            *)
(* (updateMap); the record keeps what the closure captured in kind / loc.  *)
(***************************************************************************)
HistoryAction(kind, loc, oldValue, newValue, data) ==
    [kind |-> kind, loc |-> loc, m_OldValue |-> oldValue, m_NewValue |-> newValue,
     m_Data |-> data, m_Emits |-> <<>>]

\* history.ts:204-207: delete the property when it currently exists
DeleteIfExists(T, path, current) ==
    IF current.threw THEN Outcome(TRUE, T)
    ELSE IF current.exists THEN WithHeap(T, s_DeleteValue(T.heap, RootRef, path))
         ELSE Outcome(FALSE, T)

\* a closure that assigns the value of the slot whether or not it exists
ApplyValueAssign(T, path, v) ==
    WithHeap(T, s_SetValue(T.heap, RootRef, path, v))

\* the closure built by updateValue, history.ts:202-211
ApplyValue(T, path, v) ==
    IF ~v.exists
    THEN DeleteIfExists(T, path, s_GetValue(T.heap, RootRef, path))
    ELSE WithHeap(T, s_SetValue(T.heap, RootRef, path, v))

\* a closure that stores the value of the slot under the key whether or not
\* the slot exists
ApplyMapAssign(T, key, v) ==
    Outcome(FALSE, [T EXCEPT !.tmap = Put(T.tmap, key, v.value)])

\* the closure built by updateMap, history.ts:236-244
ApplyMap(T, key, v) ==
    IF ~v.exists
    THEN IF key \in DOMAIN T.tmap
         THEN Outcome(FALSE, [T EXCEPT !.tmap = Del(T.tmap, key)])
         ELSE Outcome(FALSE, T)
    ELSE Outcome(FALSE, [T EXCEPT !.tmap = Put(T.tmap, key, v.value)])

m_Apply(T, action, v) ==
    IF action.kind = "value" THEN ApplyValue(T, action.loc, v)
    ELSE ApplyMap(T, action.loc[1], v)

\* an emit callback is a name; the callback named "boom" throws when invoked
Throws(f) == f = "boom"

\* f(): the callback is invoked and notes the targets as it sees them
Invoked(T, f) ==
    [T EXCEPT !.emitted = Append(T.emitted, [f |-> f, heap |-> T.heap, tmap |-> T.tmap])]

\* a loop that goes on to the next callback after one has thrown
RECURSIVE RunEmitsAll(_, _)
RunEmitsAll(T, emits) ==
    IF emits = <<>> THEN Outcome(FALSE, T)
    ELSE Outcome(Throws(Head(emits)) \/ RunEmitsAll(Invoked(T, Head(emits)), Tail(emits)).threw,
                 RunEmitsAll(Invoked(T, Head(emits)), Tail(emits)).T)

\* for (const f of this.m_Emits) f(), history.ts:104-108
RECURSIVE RunEmits(_, _)
RunEmits(T, emits) ==
    IF emits = <<>> THEN Outcome(FALSE, T)
    ELSE IF Throws(Head(emits))
         THEN Outcome(TRUE, Invoked(T, Head(emits)))
         ELSE RunEmits(Invoked(T, Head(emits)), Tail(emits))

\* an apply that passes the new slot whatever value is
SlotNewOnly(action, value) == action.m_NewValue

\* the slot HistoryAction.apply passes to m_Apply, history.ts:103
Slot(action, value) ==
    IF value = New THEN action.m_NewValue ELSE action.m_OldValue

\* history.ts:109: return this.m_Data.entity_number, a TypeError when the
\* data argument was omitted
ReturnEntityNumber(action, e) ==
    IF e.threw \/ action.m_Data = NoData
    THEN [threw |-> TRUE, T |-> e.T, id |-> 0]
    ELSE [threw |-> FALSE, T |-> e.T, id |-> action.m_Data.entity_number]

\* history.ts:104-108, after m_Apply returned or threw
EmitAfterApply(action, a) ==
    IF a.threw THEN [threw |-> TRUE, T |-> a.T, id |-> 0]
    ELSE ReturnEntityNumber(action, RunEmits(a.T, action.m_Emits))

\* an apply that invokes the callbacks before it writes the value
ApplyAfterEmit(action, value, e) ==
    IF e.threw THEN [threw |-> TRUE, T |-> e.T, id |-> 0]
    ELSE ReturnEntityNumber(action, m_Apply(e.T, action, Slot(action, value)))

HistoryAction_applyEmitFirst(T, action, value) ==
    ApplyAfterEmit(action, value, RunEmits(T, action.m_Emits))

\* an apply that invokes the callbacks only when it applied the new value
HistoryAction_applyEmitOnNew(T, action, value) ==
    IF value = New
    THEN EmitAfterApply(action, m_Apply(T, action, Slot(action, value)))
    ELSE ReturnEntityNumber(action, m_Apply(T, action, Slot(action, value)))

\* HistoryAction.emit, history.ts:118-121: the action with f pushed to m_Emits
HistoryAction_emit(action, f) == [action EXCEPT !.m_Emits = Append(action.m_Emits, f)]

\* HistoryAction.apply, history.ts:102-110
HistoryAction_apply(T, action, value) ==
    EmitAfterApply(action, m_Apply(T, action, Slot(action, value)))

(***************************************************************************)
(* class HistoryEntry, history.ts:125-183.                                 *)
(***************************************************************************)
HistoryEntry(text) == [m_Text |-> text, m_Actions |-> <<>>]

\* the value of a variable that holds no entry
Undefined == [m_Text |-> Undef, m_Actions |-> <<>>]

\* a push that loses the action
PushLost(entry, action) == entry

\* HistoryEntry.push
Push(entry, action) == [entry EXCEPT !.m_Actions = Append(entry.m_Actions, action)]

\* a loop that applies the actions from the last pushed to the first
RECURSIVE RunActionsReversed(_, _, _, _)
RECURSIVE PushEntityNumberReversed(_, _, _, _)
RunActionsReversed(T, actions, value, entityNumbers) ==
    IF actions = <<>> THEN [threw |-> FALSE, T |-> T, ids |-> entityNumbers]
    ELSE PushEntityNumberReversed(actions, value, entityNumbers,
                                  HistoryAction_apply(T, actions[Len(actions)], value))

PushEntityNumberReversed(actions, value, entityNumbers, r) ==
    IF r.threw THEN [threw |-> TRUE, T |-> r.T, ids |-> entityNumbers]
    ELSE RunActionsReversed(r.T, SubSeq(actions, 1, Len(actions) - 1), value,
                            Append(entityNumbers, r.id))

\* for (const action of this.m_Actions) entityNumbers.push(action.apply(value))
RECURSIVE RunActions(_, _, _, _)
RECURSIVE PushEntityNumber(_, _, _, _)
RunActions(T, actions, value, entityNumbers) ==
    IF actions = <<>> THEN [threw |-> FALSE, T |-> T, ids |-> entityNumbers]
    ELSE PushEntityNumber(actions, value, entityNumbers,
                          HistoryAction_apply(T, Head(actions), value))

\* one round of the loop: r is what action.apply(value) returned or threw
PushEntityNumber(actions, value, entityNumbers, r) ==
    IF r.threw THEN [threw |-> TRUE, T |-> r.T, ids |-> entityNumbers]
    ELSE RunActions(r.T, Tail(actions), value, Append(entityNumbers, r.id))

\* one console.log line: `[${entityNumbers.join(',')}]: ${prefix}${this.m_Text}`
Line(ids, prefix, text) == [ids |-> ids, prefix |-> prefix, text |-> text]

\* if (this.m_Text !== undefined) console.log(...)
LogLines(entry, ids, prefix) ==
    IF entry.m_Text # NoText THEN <<Line(ids, prefix, entry.m_Text)>> ELSE <<>>

\* the console.log that follows the loop, not reached when the loop threw
LogAfterLoop(entry, prefix, r) ==
    [threw |-> r.threw, T |-> r.T,
     console |-> IF r.threw THEN <<>> ELSE LogLines(entry, r.ids, prefix)]

\* the targets after the apply closures of all the actions ran
RECURSIVE WriteAll(_, _, _)
WriteAll(T, actions, value) ==
    IF actions = <<>> THEN T
    ELSE WriteAll(m_Apply(T, Head(actions), Slot(Head(actions), value)).T, Tail(actions), value)

\* a loop that runs after the values of all the actions were written
RunEntryWritingFirst(T, entry, value, prefix) ==
    LogAfterLoop(entry, prefix,
                 RunActions(WriteAll(T, entry.m_Actions, value), entry.m_Actions, value, <<>>))

\* the loop of apply / undo / redo followed by the console.log
RunEntry(T, entry, value, prefix) ==
    LogAfterLoop(entry, prefix, RunActions(T, entry.m_Actions, value, <<>>))

HistoryEntry_apply(T, entry) == RunEntry(T, entry, New, "")
\* an undo that applies the new values once more
HistoryEntry_undoNew(T, entry) == RunEntry(T, entry, New, "UNDO ")
HistoryEntry_undo(T, entry) == RunEntry(T, entry, Old, "UNDO ")
\* a redo that applies the old values once more
HistoryEntry_redoOld(T, entry) == RunEntry(T, entry, Old, "REDO ")
HistoryEntry_redo(T, entry) == RunEntry(T, entry, New, "REDO ")

\* a log that lists only the entity id of the action pushed last
HistoryEntry_logLast(entry) ==
    IF \E i \in DOMAIN entry.m_Actions : entry.m_Actions[i].m_Data = NoData
    THEN [threw |-> TRUE, console |-> <<>>]
    ELSE [threw |-> FALSE,
          console |-> LogLines(entry,
                               IF entry.m_Actions = <<>> THEN <<>>
                               ELSE <<entry.m_Actions[Len(entry.m_Actions)].m_Data.entity_number>>,
                               "")]

\* HistoryEntry.log: a.data.entity_number is a TypeError for an action without data
HistoryEntry_log(entry) ==
    IF \E i \in DOMAIN entry.m_Actions : entry.m_Actions[i].m_Data = NoData
    THEN [threw |-> TRUE, console |-> <<>>]
    ELSE [threw |-> FALSE,
          console |-> LogLines(entry,
                               [i \in DOMAIN entry.m_Actions |->
                                   entry.m_Actions[i].m_Data.entity_number],
                               "")]

\* a getter that returns the metadata of the action pushed first
HistoryEntry_dataFirst(entry) ==
    IF Len(entry.m_Actions) > 0 THEN entry.m_Actions[1].m_Data
    ELSE NoData

\* HistoryEntry.data
HistoryEntry_data(entry) ==
    IF Len(entry.m_Actions) > 0 THEN entry.m_Actions[Len(entry.m_Actions)].m_Data
    ELSE NoData

(***************************************************************************)
(* The history store, history.ts:185-192 and 259-291, 353-358.             *)
(***************************************************************************)

\* s_HistoryEntries[i] for a JavaScript index i; undefined outside the array
EntryAt(entries, i) ==
    IF i + 1 \in DOMAIN entries THEN entries[i + 1] ELSE Undefined

canUndo == s_HistoryIndex > 0
canRedo == s_HistoryIndex < Len(s_HistoryEntries)

\* a commit that pops nothing
PopNothing(entries, index) == entries

\* while (s_HistoryEntries.length > s_HistoryIndex) { s_HistoryEntries.pop() }
RECURSIVE PopWhileLonger(_, _)
PopWhileLonger(entries, index) ==
    IF Len(entries) > index
    THEN PopWhileLonger(SubSeq(entries, 1, Len(entries) - 1), index)
    ELSE entries

\* s_CommitTransaction: the entries and the index it leaves
s_CommitTransaction(entries, index, transaction) ==
    [entries |-> Append(PopWhileLonger(entries, index), transaction),
     index |-> index + 1]

\* what a call leaves in ret
Returned(op, value) == [op |-> op, threw |-> FALSE, value |-> value]
Threw(op) == [op |-> op, threw |-> TRUE, value |-> Undef]
Outcome_of(op, threw) == IF threw THEN Threw(op) ELSE Returned(op, Undef)

\* the targets after a call: the heap and the Map of T, and the callbacks it ran
SetTarget(T) ==
    /\ heap' = T.heap
    /\ tmap' = T.tmap
    /\ emitted' = T.emitted

\* the history store after a call
SetStore(c) ==
    /\ s_HistoryEntries' = c.entries
    /\ s_HistoryIndex' = c.index

(***************************************************************************)
(* updateValue and updateMap, from the construction of the entry on:       *)
(* history.ts:200, 212-223 and 234, 245-256.                               *)
(***************************************************************************)

\* no transaction active: transaction.apply() has run with outcome r, then
\* s_CommitTransaction(transaction) unless it threw
ApplyThenCommit(op, transaction, r) ==
    /\ SetTarget(r.T)
    /\ console' = r.console
    /\ ret' = Outcome_of(op, r.threw)
    /\ UNCHANGED s_Transaction
    /\ IF r.threw
       THEN UNCHANGED <<s_HistoryEntries, s_HistoryIndex>>
       ELSE SetStore(s_CommitTransaction(s_HistoryEntries, s_HistoryIndex, transaction))

\* a mutation inside a transaction that also commits the open entry
ApplyInTransactionCommitting(op, transaction, r) ==
    /\ SetTarget(r.T)
    /\ console' = <<>>
    /\ ret' = Outcome_of(op, r.threw)
    /\ s_Transaction' = transaction
    /\ SetStore(s_CommitTransaction(s_HistoryEntries, s_HistoryIndex, transaction))

\* transaction active: the action is pushed, and historyAction.apply() has run
\* with outcome r
ApplyInTransaction(op, transaction, r) ==
    /\ SetTarget(r.T)
    /\ console' = <<>>
    /\ ret' = Outcome_of(op, r.threw)
    /\ s_Transaction' = transaction
    /\ UNCHANGED <<s_HistoryEntries, s_HistoryIndex>>

\* a mutation call that records nothing when neither slot of the action exists
RouteActionSkipping(op, historyAction, text) ==
    IF ~historyAction.m_OldValue.exists /\ ~historyAction.m_NewValue.exists
    THEN /\ ret' = Returned(op, Undef)
         /\ console' = <<>>
         /\ emitted' = <<>>
         /\ UNCHANGED <<heap, tmap, s_HistoryIndex, s_HistoryEntries, s_Transaction>>
    ELSE IF s_Transaction = Undefined
         THEN ApplyThenCommit(op, Push(HistoryEntry(text), historyAction),
                              HistoryEntry_apply(Target, Push(HistoryEntry(text), historyAction)))
         ELSE ApplyInTransaction(op, Push(s_Transaction, historyAction),
                                 HistoryAction_apply(Target, historyAction, New))

\* a mutation call that gives its description to the open transaction
RouteActionRenaming(op, historyAction, text) ==
    IF s_Transaction = Undefined
    THEN ApplyThenCommit(op, Push(HistoryEntry(text), historyAction),
                         HistoryEntry_apply(Target, Push(HistoryEntry(text), historyAction)))
    ELSE ApplyInTransaction(op, Push([s_Transaction EXCEPT !.m_Text = text], historyAction),
                            HistoryAction_apply(Target, historyAction, New))

RouteAction(op, historyAction, text) ==
    IF s_Transaction = Undefined
    THEN ApplyThenCommit(op, Push(HistoryEntry(text), historyAction),
                         HistoryEntry_apply(Target, Push(HistoryEntry(text), historyAction)))
    ELSE ApplyInTransaction(op, Push(s_Transaction, historyAction),
                            HistoryAction_apply(Target, historyAction, New))

\* an updateValue that takes the old value for absent when the read threw
UpdateValueFromAbsent(oldValue, path, value, text, data, remove) ==
    RouteAction("updateValue",
                HistoryAction("value", path,
                              ValueInfo(oldValue.value, oldValue.exists),
                              ValueInfo(value, ~remove), data),
                text)

\* updateValue after the old value was read: oldValue is what s_GetValue returned
UpdateValueFrom(oldValue, path, value, text, data, remove) ==
    IF oldValue.threw
    THEN /\ ret' = Threw("updateValue")
         /\ console' = <<>>
         /\ emitted' = <<>>
         /\ UNCHANGED <<heap, tmap, s_HistoryIndex, s_HistoryEntries, s_Transaction>>
    ELSE RouteAction("updateValue",
                     HistoryAction("value", path,
                                   ValueInfo(oldValue.value, oldValue.exists),
                                   ValueInfo(value, ~remove), data),
                     text)

\* updateValue(target, path, value, text, data, remove), history.ts:195-224
updateValue(path, value, text, data, remove) ==
    /\ nCalls < MaxCalls
    /\ nCalls' = nCalls + 1
    /\ UpdateValueFrom(s_GetValue(heap, RootRef, path), path, value, text, data, remove)

\* an old value that takes a key holding undefined for absent
MapOldValueDefined(key) ==
    IF key \in DOMAIN tmap /\ tmap[key] # Undef
    THEN ValueInfo(tmap[key], TRUE) ELSE ValueInfo(Undef, FALSE)

\* the old value updateMap reads, history.ts:229-231
MapOldValue(key) ==
    IF key \in DOMAIN tmap THEN ValueInfo(tmap[key], TRUE) ELSE ValueInfo(Undef, FALSE)

\* updateMap(targetMap, key, value, text, data, remove), history.ts:227-257
updateMap(key, value, text, data, remove) ==
    /\ nCalls < MaxCalls
    /\ nCalls' = nCalls + 1
    /\ RouteAction("updateMap",
                   HistoryAction("map", <<key>>, MapOldValue(key),
                                 ValueInfo(value, ~remove), data),
                   text)

\* getUndoPreview, history.ts:265-267: what the call returns in the current
\* state; .data of undefined is a TypeError
getUndoPreview ==
    IF EntryAt(s_HistoryEntries, s_HistoryIndex - 1) = Undefined
    THEN Threw("getUndoPreview")
    ELSE Returned("getUndoPreview",
                  HistoryEntry_data(EntryAt(s_HistoryEntries, s_HistoryIndex - 1)))

\* getRedoPreview, history.ts:282-284
getRedoPreview ==
    IF EntryAt(s_HistoryEntries, s_HistoryIndex) = Undefined
    THEN Threw("getRedoPreview")
    ELSE Returned("getRedoPreview",
                  HistoryEntry_data(EntryAt(s_HistoryEntries, s_HistoryIndex)))

\* the call threw before anything was written
ThrewAtOnce(op) ==
    /\ ret' = Threw(op)
    /\ console' = <<>>
    /\ emitted' = <<>>
    /\ UNCHANGED <<heap, tmap, s_HistoryIndex>>

\* an index that moves by two steps at once
MoveIndexTwice(op, r, step) ==
    /\ SetTarget(r.T)
    /\ console' = r.console
    /\ ret' = Outcome_of(op, r.threw)
    /\ s_HistoryIndex' = IF r.threw THEN s_HistoryIndex ELSE s_HistoryIndex + 2 * step

\* historyEntry.undo() / redo() has run with outcome r; the index moves by
\* step unless it threw
MoveIndex(op, r, step) ==
    /\ SetTarget(r.T)
    /\ console' = r.console
    /\ ret' = Outcome_of(op, r.threw)
    /\ s_HistoryIndex' = IF r.threw THEN s_HistoryIndex ELSE s_HistoryIndex + step

\* an undo that moves the index without looking whether an entry is there
undoUnchecked ==
    /\ UNCHANGED <<s_HistoryEntries, s_Transaction, nCalls>>
    /\ IF EntryAt(s_HistoryEntries, s_HistoryIndex - 1) = Undefined
       THEN /\ ret' = Returned("undo", Undef)
            /\ console' = <<>>
            /\ emitted' = <<>>
            /\ UNCHANGED <<heap, tmap>>
            /\ s_HistoryIndex' = s_HistoryIndex - 1
       ELSE MoveIndex("undo",
                      HistoryEntry_undo(Target, EntryAt(s_HistoryEntries, s_HistoryIndex - 1)),
                      -1)

\* undo, history.ts:270-274: historyEntry.undo() on undefined is a TypeError
undo ==
    /\ UNCHANGED <<s_HistoryEntries, s_Transaction, nCalls>>
    /\ IF EntryAt(s_HistoryEntries, s_HistoryIndex - 1) = Undefined
       THEN ThrewAtOnce("undo")
       ELSE MoveIndex("undo",
                      HistoryEntry_undo(Target, EntryAt(s_HistoryEntries, s_HistoryIndex - 1)),
                      -1)

\* a redo that returns normally when there is nothing to redo
redoSilent ==
    /\ UNCHANGED <<s_HistoryEntries, s_Transaction, nCalls>>
    /\ IF EntryAt(s_HistoryEntries, s_HistoryIndex) = Undefined
       THEN /\ ret' = Returned("redo", Undef)
            /\ console' = <<>>
            /\ emitted' = <<>>
            /\ UNCHANGED <<heap, tmap, s_HistoryIndex>>
       ELSE MoveIndex("redo",
                      HistoryEntry_redo(Target, EntryAt(s_HistoryEntries, s_HistoryIndex)),
                      1)

\* redo, history.ts:287-291
redo ==
    /\ UNCHANGED <<s_HistoryEntries, s_Transaction, nCalls>>
    /\ IF EntryAt(s_HistoryEntries, s_HistoryIndex) = Undefined
       THEN ThrewAtOnce("redo")
       ELSE MoveIndex("redo",
                      HistoryEntry_redo(Target, EntryAt(s_HistoryEntries, s_HistoryIndex)),
                      1)

\* a startTransaction that replaces the transaction in progress
startTransactionAnew(text) ==
    /\ console' = <<>>
    /\ emitted' = <<>>
    /\ UNCHANGED <<heap, tmap, s_HistoryIndex, s_HistoryEntries>>
    /\ nCalls' = IF nCalls < MaxCalls THEN nCalls + 1 ELSE nCalls
    /\ s_Transaction' = HistoryEntry(text)
    /\ ret' = Returned("startTransaction", TRUE)

\* startTransaction(text), history.ts:298-305
startTransaction(text) ==
    /\ console' = <<>>
    /\ emitted' = <<>>
    /\ UNCHANGED <<heap, tmap, s_HistoryIndex, s_HistoryEntries>>
    /\ IF s_Transaction # Undefined
       THEN /\ ret' = Returned("startTransaction", FALSE)
            /\ UNCHANGED <<s_Transaction, nCalls>>
       ELSE /\ nCalls < MaxCalls
            /\ nCalls' = nCalls + 1
            /\ s_Transaction' = HistoryEntry(text)
            /\ ret' = Returned("startTransaction", TRUE)

\* a commit that leaves the committed entry in the transaction slot
CommitLoggedOpen(l) ==
    /\ console' = l.console
    /\ ret' = Outcome_of("commitTransaction", l.threw)
    /\ IF l.threw
       THEN UNCHANGED <<s_HistoryEntries, s_HistoryIndex, s_Transaction>>
       ELSE /\ SetStore(s_CommitTransaction(s_HistoryEntries, s_HistoryIndex, s_Transaction))
            /\ UNCHANGED s_Transaction

\* a commit that empties the transaction slot also when log() threw
CommitLoggedClosing(l) ==
    /\ console' = l.console
    /\ ret' = Outcome_of("commitTransaction", l.threw)
    /\ s_Transaction' = Undefined
    /\ IF l.threw
       THEN UNCHANGED <<s_HistoryEntries, s_HistoryIndex>>
       ELSE SetStore(s_CommitTransaction(s_HistoryEntries, s_HistoryIndex, s_Transaction))

\* commitTransaction after s_Transaction.log() ran with outcome l
CommitLogged(l) ==
    /\ console' = l.console
    /\ ret' = Outcome_of("commitTransaction", l.threw)
    /\ IF l.threw
       THEN UNCHANGED <<s_HistoryEntries, s_HistoryIndex, s_Transaction>>
       ELSE /\ SetStore(s_CommitTransaction(s_HistoryEntries, s_HistoryIndex, s_Transaction))
            /\ s_Transaction' = Undefined

\* a commitTransaction that commits an entry also when none is in progress
commitTransactionAlways ==
    /\ emitted' = <<>>
    /\ UNCHANGED <<heap, tmap, nCalls>>
    /\ IF s_Transaction = Undefined
       THEN /\ ret' = Returned("commitTransaction", Undef)
            /\ console' = <<>>
            /\ s_Transaction' = Undefined
            /\ s_HistoryIndex < MaxCalls
            /\ SetStore(s_CommitTransaction(s_HistoryEntries, s_HistoryIndex,
                                           HistoryEntry(NoText)))
       ELSE CommitLogged(HistoryEntry_log(s_Transaction))

\* commitTransaction, history.ts:311-319
commitTransaction ==
    /\ emitted' = <<>>
    /\ UNCHANGED <<heap, tmap, nCalls>>
    /\ IF s_Transaction = Undefined
       THEN /\ ret' = Returned("commitTransaction", Undef)
            /\ console' = <<>>
            /\ UNCHANGED <<s_HistoryEntries, s_HistoryIndex, s_Transaction>>
       ELSE CommitLogged(HistoryEntry_log(s_Transaction))

\* the action pushed last into the entry committed last
LastPushedAction(entries) ==
    entries[Len(entries)].m_Actions[Len(entries[Len(entries)].m_Actions)]

\* the entry with f registered on the action pushed last
EmitOnLast(entry, f) ==
    [entry EXCEPT !.m_Actions[Len(entry.m_Actions)] =
                     HistoryAction_emit(entry.m_Actions[Len(entry.m_Actions)], f)]

\* .emit(f) chained to a mutation call that has just returned its action, or
\* to another .emit(): the action is the one pushed last into the open
\* transaction, or into the entry the call has just committed
emit(f) ==
    /\ ret.op \in {"updateValue", "updateMap", "emit"}
    /\ ~ret.threw
    /\ ret' = Returned("emit", Undef)
    /\ console' = <<>>
    /\ emitted' = <<>>
    /\ UNCHANGED <<heap, tmap, s_HistoryIndex, nCalls>>
    /\ IF s_Transaction # Undefined
       THEN /\ s_Transaction' = EmitOnLast(s_Transaction, f)
            /\ UNCHANGED s_HistoryEntries
       ELSE /\ s_HistoryEntries' =
                  [s_HistoryEntries EXCEPT ![Len(s_HistoryEntries)] =
                      EmitOnLast(s_HistoryEntries[Len(s_HistoryEntries)], f)]
            /\ UNCHANGED s_Transaction

(***************************************************************************)
(* The state after the module is loaded, and the targets of the callers:   *)
(* the record { a: "x", n: { a: "x" } } and an empty Map.                  *)
(***************************************************************************)
InitHeap == [r \in Refs |->
                IF r = RootRef THEN [k \in {"a", "n"} |-> IF k = "a" THEN "x" ELSE SubRef]
                ELSE [k \in {"a"} |-> "x"]]
InitMap == [k \in {} |-> "x"]

\* a caller that follows no script notes, after each call, how many entries
\* the call discarded from s_HistoryEntries
NoScript == [pc |-> "free", discarded |-> 0]

Init ==
    /\ heap = InitHeap
    /\ tmap = InitMap
    /\ s_HistoryIndex = 0
    /\ s_HistoryEntries = <<>>
    /\ s_Transaction = Undefined
    /\ ret = Returned("load", Undef)
    /\ console = <<>>
    /\ emitted = <<>>
    /\ nCalls = 0
    /\ scen = NoScript

(***************************************************************************)
(* The arguments the callers pass.                                         *)
(***************************************************************************)
Paths == {<<"a">>, <<"n">>, <<"n", "a">>}
MapKeys == {"k1"}
Values == {"y"}
Texts == {"t"}
Datas == {NoData, HistoryData("upd", 1)}

\* value and remove flag of a mutation call; a removal passes undefined as value
Writes == {<<v, FALSE>> : v \in Values} \cup {<<Undef, TRUE>>}

\* the number of entries of the array that a step removed
Discarded ==
    IF Len(s_HistoryEntries') <= Len(s_HistoryEntries)
    THEN Len(s_HistoryEntries) - Len(s_HistoryEntries') +
         (IF s_HistoryEntries' # s_HistoryEntries THEN 1 ELSE 0)
    ELSE 0

Note == scen' = [pc |-> "free", discarded |-> Discarded]

Next ==
    \/ \E p \in Paths, w \in Writes, t \in Texts, d \in Datas :
          updateValue(p, w[1], t, d, w[2]) /\ Note
    \/ \E k \in MapKeys, w \in Writes, t \in Texts, d \in Datas :
          updateMap(k, w[1], t, d, w[2]) /\ Note
    \/ undo /\ Note
    \/ redo /\ Note
    \/ \E t \in Texts : startTransaction(t) /\ Note
    \/ commitTransaction /\ Note

Spec == Init /\ [][Next]_vars

(***************************************************************************)
(* Reading a location of the targets, and recognising the call of a step.  *)
(***************************************************************************)

\* the slot a location of targets T holds: exists and value
ReadLoc(T, kind, loc) ==
    IF kind = "value" THEN s_GetValue(T.heap, RootRef, loc)
    ELSE IF loc[1] \in DOMAIN T.tmap
         THEN [threw |-> FALSE, value |-> T.tmap[loc[1]], exists |-> TRUE]
         ELSE [threw |-> FALSE, value |-> Undef, exists |-> FALSE]

\* the slot a location holds once a write of value / remove has been applied
Written(value, remove) ==
    IF remove THEN [threw |-> FALSE, value |-> Undef, exists |-> FALSE]
    ELSE [threw |-> FALSE, value |-> value, exists |-> TRUE]

\* every segment of the path but the last resolves to a record
Resolves(path) == ~s_SetValue(heap, RootRef, path, ValueInfo(Undef, TRUE)).threw

TargetAfter == [heap |-> heap', tmap |-> tmap', emitted |-> <<>>]

\* the step is a call of a mutation function
IsMutation == ret'.op \in {"updateValue", "updateMap"}

\* the step commits an entry: an auto-committed mutation, or commitTransaction
\* of the open transaction
IsCommit ==
    \/ IsMutation /\ s_Transaction = Undefined /\ ~ret'.threw
    \/ ret'.op = "commitTransaction" /\ s_Transaction # Undefined /\ ~ret'.threw

LastEntry(entries) == entries[Len(entries)]

(***************************************************************************)
(* C1: in every state reachable by any sequence of updateValue, updateMap, *)
(* startTransaction, commitTransaction, undo and redo calls, failing undo  *)
(* and redo calls included, 0 <= cursor <= number of committed entries.    *)
(***************************************************************************)
C1_CursorInRange ==
    0 <= s_HistoryIndex /\ s_HistoryIndex <= Len(s_HistoryEntries)

\* a redo with nothing to redo has just failed, after entries were committed
C1_Witness ==
    /\ ret.op = "redo" /\ ret.threw
    /\ s_HistoryIndex = Len(s_HistoryEntries)
    /\ s_HistoryIndex >= 2

(***************************************************************************)
(* C3: metadata is optional: updateValue or updateMap with no transaction  *)
(* open and the metadata argument omitted returns normally, leaves the new *)
(* value in the target and commits exactly one entry.                      *)
(***************************************************************************)
C3_MetadataOptional ==
    [][\A w \in Writes, t \in Texts :
          /\ (s_Transaction = Undefined /\ updateValue(<<"a">>, w[1], t, NoData, w[2])
                => /\ ~ret'.threw
                   /\ ReadLoc(TargetAfter, "value", <<"a">>) = Written(w[1], w[2])
                   /\ s_HistoryIndex' = s_HistoryIndex + 1
                   /\ Len(s_HistoryEntries') = s_HistoryIndex + 1)
          /\ (s_Transaction = Undefined /\ updateMap("k1", w[1], t, NoData, w[2])
                => /\ ~ret'.threw
                   /\ ReadLoc(TargetAfter, "map", <<"k1">>) = Written(w[1], w[2])
                   /\ s_HistoryIndex' = s_HistoryIndex + 1
                   /\ Len(s_HistoryEntries') = s_HistoryIndex + 1)]_vars

OldSlot(kind, loc) ==
    ValueInfo(ReadLoc(Target, kind, loc).value, ReadLoc(Target, kind, loc).exists)

PushedBy(kind, loc, value, remove, data) ==
    /\ ReadLoc(TargetAfter, kind, loc) = Written(value, remove)
    /\ s_Transaction'.m_Text = s_Transaction.m_Text
    /\ s_Transaction'.m_Actions =
          Append(s_Transaction.m_Actions,
                 HistoryAction(kind, loc, OldSlot(kind, loc), ValueInfo(value, ~remove), data))

C6_OpenTransactionFrame ==
    [][s_Transaction # Undefined /\ IsMutation =>
          /\ s_HistoryEntries' = s_HistoryEntries
          /\ s_HistoryIndex' = s_HistoryIndex
          /\ canUndo' = canUndo
          /\ canRedo' = canRedo
          /\ getUndoPreview' = getUndoPreview
          /\ getRedoPreview' = getRedoPreview
          /\ \A p \in Paths, w \in Writes, t \in Texts, d \in Datas :
                Resolves(p) /\ updateValue(p, w[1], t, d, w[2])
                   => PushedBy("value", p, w[1], w[2], d)
          /\ \A k \in MapKeys, w \in Writes, t \in Texts, d \in Datas :
                updateMap(k, w[1], t, d, w[2])
                   => PushedBy("map", <<k>>, w[1], w[2], d)]_vars

\* a mutation call has just been made inside an open transaction while an
\* entry was undoable
C6_Witness ==
    /\ ret.op \in {"updateValue", "updateMap"}
    /\ s_Transaction # Undefined
    /\ Len(s_Transaction.m_Actions) = 1
    /\ canUndo
    /\ ~getUndoPreview.threw

(***************************************************************************)
(* C7: committing an entry (auto-commit or commitTransaction) while        *)
(* canRedo() is true discards every entry at index >= cursor, keeps the    *)
(* entries at index < cursor unchanged and in order, appends the new entry *)
(* and increments the cursor by 1; afterwards canRedo() is false and       *)
(* canUndo() is true.                                                      *)
(***************************************************************************)
C7_CommitDiscardsRedo ==
    [][IsCommit /\ canRedo =>
          /\ Len(s_HistoryEntries') = s_HistoryIndex + 1
          /\ SubSeq(s_HistoryEntries', 1, s_HistoryIndex)
                = SubSeq(s_HistoryEntries, 1, s_HistoryIndex)
          /\ IF s_Transaction = Undefined
             THEN Len(LastEntry(s_HistoryEntries').m_Actions) = 1
             ELSE LastEntry(s_HistoryEntries') = s_Transaction
          /\ s_HistoryIndex' = s_HistoryIndex + 1
          /\ ~canRedo'
          /\ canUndo']_vars

\* a commit has just discarded an entry and kept one below the cursor
C7_Witness ==
    /\ scen.discarded >= 1
    /\ s_HistoryIndex >= 2
    /\ ~ret.threw

(***************************************************************************)
(* C8: startTransaction called while a transaction is open returns false   *)
(* and changes nothing: the open entry keeps its description and actions,  *)
(* and the history sequence, cursor and target are unchanged; called with  *)
(* no transaction open it returns true and opens an entry with no actions. *)
(***************************************************************************)
C8_StartTransaction ==
    [][ret'.op = "startTransaction" =>
          IF s_Transaction # Undefined
          THEN /\ ret'.value = FALSE
               /\ UNCHANGED <<s_Transaction, s_HistoryEntries, s_HistoryIndex, heap, tmap>>
          ELSE /\ ret'.value = TRUE
               /\ s_Transaction' # Undefined
               /\ s_Transaction'.m_Actions = <<>>
               /\ UNCHANGED <<s_HistoryEntries, s_HistoryIndex, heap, tmap>>]_vars

\* startTransaction has just returned false on a transaction that holds an action
C8_Witness ==
    /\ ret.op = "startTransaction"
    /\ ret.value = FALSE
    /\ Len(s_Transaction.m_Actions) >= 1

(***************************************************************************)
(* C9: commitTransaction called with no transaction open leaves the        *)
(* history sequence, the cursor, the transaction slot and the target       *)
(* unchanged and logs no line; it does not truncate redoable entries.      *)
(***************************************************************************)
C9_CommitWithoutTransaction ==
    [][ret'.op = "commitTransaction" /\ s_Transaction = Undefined =>
          /\ UNCHANGED <<s_HistoryEntries, s_HistoryIndex, s_Transaction, heap, tmap>>
          /\ console' = <<>>
          /\ ~ret'.threw]_vars

\* commitTransaction has just returned with no transaction open and an entry redoable
C9_Witness ==
    /\ ret.op = "commitTransaction"
    /\ s_Transaction = Undefined
    /\ canRedo

(***************************************************************************)
(* C10: undo() and getUndoPreview() called when canUndo() is false, and    *)
(* redo() and getRedoPreview() called when canRedo() is false, fail with   *)
(* an error, and leave the cursor, the history sequence, the transaction   *)
(* slot and the target unchanged.                                          *)
(***************************************************************************)
C10_FailLoudly ==
    /\ [](~canUndo => getUndoPreview.threw)
    /\ [](~canRedo => getRedoPreview.threw)
    /\ [][(ret'.op = "undo" /\ ~canUndo) \/ (ret'.op = "redo" /\ ~canRedo) =>
             /\ ret'.threw
             /\ UNCHANGED <<s_HistoryIndex, s_HistoryEntries, s_Transaction, heap, tmap>>]_vars

\* an undo with nothing to undo has just failed while entries were redoable
\* and a transaction was open
C10_Witness ==
    /\ ret.op = "undo" /\ ret.threw
    /\ ~canUndo /\ canRedo
    /\ getUndoPreview.threw
    /\ s_Transaction # Undefined

(***************************************************************************)
(* Round trip: N mutation calls, each supplying metadata and made with no  *)
(* transaction open, followed by undo calls.  A mutation is called only    *)
(* while nothing has been undone.                                          *)
(***************************************************************************)
RoundTripPaths == {<<"a">>, <<"b">>, <<"n">>, <<"n", "a">>}
RoundTripKeys == {"k1", "k2"}
\* a caller may also store undefined as a value that exists
RoundTripWrites == Writes \cup {<<Undef, FALSE>>}
Supplied == HistoryData("upd", 1)

NextRoundTrip ==
    \/ \E p \in RoundTripPaths, w \in RoundTripWrites, t \in Texts :
          /\ s_HistoryIndex = Len(s_HistoryEntries)
          /\ updateValue(p, w[1], t, Supplied, w[2])
          /\ UNCHANGED scen
    \/ \E k \in RoundTripKeys, w \in RoundTripWrites, t \in Texts :
          /\ s_HistoryIndex = Len(s_HistoryEntries)
          /\ updateMap(k, w[1], t, Supplied, w[2])
          /\ UNCHANGED scen
    \/ undo /\ UNCHANGED scen

SpecRoundTrip == Init /\ [][NextRoundTrip]_vars

(***************************************************************************)
(* C2: after N mutation calls (updateValue or updateMap, each supplying    *)
(* metadata) made with no transaction open, followed by N undo calls, the  *)
(* target equals its state before the first mutation, key absence versus   *)
(* presence included.                                                      *)
(***************************************************************************)
C2_RoundTrip ==
    s_HistoryIndex = 0 => heap = InitHeap /\ tmap = InitMap

\* every call committed an entry, one of them created a key and one removed a
\* key, and all of them have been undone
C2_Witness ==
    /\ ret.op = "undo" /\ ~ret.threw
    /\ s_HistoryIndex = 0
    /\ Len(s_HistoryEntries) = nCalls
    /\ nCalls >= 3
    /\ \E i \in DOMAIN s_HistoryEntries :
          /\ ~s_HistoryEntries[i].m_Actions[1].m_OldValue.exists
          /\ s_HistoryEntries[i].m_Actions[1].m_NewValue.exists
    /\ \E i \in DOMAIN s_HistoryEntries :
          /\ s_HistoryEntries[i].m_Actions[1].m_OldValue.exists
          /\ ~s_HistoryEntries[i].m_Actions[1].m_NewValue.exists

(***************************************************************************)
(* One transaction: from a state with or without history, the caller calls *)
(* startTransaction, mutation calls that supply metadata,                  *)
(* commitTransaction, undo and redo, in this order.  The caller notes the  *)
(* targets and the cursor at startTransaction, the targets at commit, the  *)
(* number of mutation calls, and whether all of them returned.             *)
(***************************************************************************)
TxPaths == {<<"a">>, <<"n">>, <<"n", "a">>}
TxKeys == {"k1"}

\* the entry an auto-committed updateMap of k1 to "y" leaves in the history
EarlierEntry ==
    Push(HistoryEntry("t"),
         HistoryAction("map", <<"k1">>, ValueInfo(Undef, FALSE), ValueInfo("y", TRUE),
                       Supplied))

\* the states the transaction starts from: the module just loaded; one entry
\* committed; that entry undone
InitTx ==
    /\ heap = InitHeap
    /\ \/ tmap = InitMap /\ s_HistoryEntries = <<>> /\ s_HistoryIndex = 0
       \/ /\ tmap = Put(InitMap, "k1", "y")
          /\ s_HistoryEntries = <<EarlierEntry>>
          /\ s_HistoryIndex = 1
       \/ tmap = InitMap /\ s_HistoryEntries = <<EarlierEntry>> /\ s_HistoryIndex = 0
    /\ s_Transaction = Undefined
    /\ ret = Returned("load", Undef)
    /\ console = <<>>
    /\ emitted = <<>>
    /\ nCalls = 0
    /\ scen = [pc |-> "pre", start |-> Target, commit |-> Target,
               index |-> s_HistoryIndex, calls |-> 0, ok |-> TRUE]

NoteCall == scen' = [scen EXCEPT !.calls = scen.calls + 1,
                                 !.ok = scen.ok /\ ~ret'.threw]

NextTx ==
    \/ \E t \in Texts :
          /\ scen.pc = "pre"
          /\ startTransaction(t)
          /\ scen' = [scen EXCEPT !.pc = "open", !.start = Target,
                                  !.index = s_HistoryIndex]
    \/ \E p \in TxPaths, w \in Writes, t \in Texts :
          /\ scen.pc = "open"
          /\ updateValue(p, w[1], t, Supplied, w[2])
          /\ NoteCall
    \/ \E k \in TxKeys, w \in Writes, t \in Texts :
          /\ scen.pc = "open"
          /\ updateMap(k, w[1], t, Supplied, w[2])
          /\ NoteCall
    \/ /\ scen.pc = "open"
       /\ commitTransaction
       /\ scen' = [scen EXCEPT !.pc = "committed", !.commit = Target]
    \/ /\ scen.pc = "committed"
       /\ undo
       /\ scen' = [scen EXCEPT !.pc = "undone"]
    \/ /\ scen.pc = "undone"
       /\ redo
       /\ scen' = [scen EXCEPT !.pc = "redone"]

SpecTx == InitTx /\ [][NextTx]_vars

\* the entry the transaction was committed as
TxEntry == s_HistoryEntries[scen.index + 1]

\* p is a prefix of q, or q itself
IsPrefix(p, q) == Len(p) <= Len(q) /\ SubSeq(q, 1, Len(p)) = p

\* the actions write pairwise distinct locations
Distinct(actions) ==
    \A i, j \in DOMAIN actions :
       i # j => actions[i].kind # actions[j].kind \/ actions[i].loc # actions[j].loc

\* the actions write pairwise distinct locations, and no written location lies
\* on the path to another one
Independent(actions) ==
    \A i, j \in DOMAIN actions :
       i # j => actions[i].kind # actions[j].kind
                \/ ~IsPrefix(actions[i].loc, actions[j].loc)

\* every location the actions wrote holds what it held in targets T
Restored(actions, T) ==
    \A i \in DOMAIN actions :
       ReadLoc(Target, actions[i].kind, actions[i].loc)
          = ReadLoc(T, actions[i].kind, actions[i].loc)

\* one entry, one step back, one step forward
OneEntry ==
    /\ scen.pc = "committed" =>
          /\ s_HistoryIndex = scen.index + 1
          /\ Len(s_HistoryEntries) = scen.index + 1
          /\ Len(TxEntry.m_Actions) = scen.calls
    /\ scen.pc = "undone" =>
          /\ ~ret.threw
          /\ s_HistoryIndex = scen.index
          /\ Restored(TxEntry.m_Actions, scen.start)
    /\ scen.pc = "redone" =>
          /\ ~ret.threw
          /\ s_HistoryIndex = scen.index + 1
          /\ Restored(TxEntry.m_Actions, scen.commit)

\* the transaction of the claim has been committed
Committed == scen.pc \in {"committed", "undone", "redone"} /\ scen.ok /\ scen.calls >= 2

(***************************************************************************)
(* C5 as claimed: a transaction of several mutation calls (each supplying  *)
(* metadata, writing pairwise distinct locations), once committed,         *)
(* occupies exactly one history entry: commitTransaction advances the      *)
(* cursor by exactly 1, a single undo() restores every written location to *)
(* its value before startTransaction, and a single redo() restores every   *)
(* written location to its value at commit.                                *)
(***************************************************************************)
C5_TransactionOneEntry ==
    Committed /\ Distinct(TxEntry.m_Actions) => OneEntry

(***************************************************************************)
(* The same holds of a transaction whose mutation calls write pairwise     *)
(* distinct locations none of which lies on the path to another written    *)
(* location: forward-order undo is safe for independent actions.           *)
(***************************************************************************)
IndependentTransactionOneEntry ==
    Committed /\ Independent(TxEntry.m_Actions) => OneEntry

\* a transaction that wrote a nested location and another one has been
\* committed on top of an earlier entry, undone and redone
IndependentTransactionRedone ==
    /\ scen.pc = "redone"
    /\ Committed
    /\ Independent(TxEntry.m_Actions)
    /\ scen.index >= 1
    /\ \E i \in DOMAIN TxEntry.m_Actions : TxEntry.m_Actions[i].loc = <<"n", "a">>
    /\ scen.start # scen.commit

(***************************************************************************)
(* A session: any sequence of calls of the exported functions in which     *)
(* every mutation call supplies metadata (updateMap one of two entity      *)
(* ids).  The                                                              *)
(* caller notes, at each undo() that returns, the targets and the history  *)
(* store just before it, and keeps the note while the next call is redo(). *)
(* It also notes whether every undo() and redo() so far was called while   *)
(* the open transaction, if any, held no action, whether every entry       *)
(* committed so far wrote pairwise distinct locations, whether none of     *)
(* these locations lay on the path to another location of the same entry,  *)
(* and whether every mutation call so far returned.                        *)
(***************************************************************************)
Other == HistoryData("del", 2)
SessionDatas == {Supplied, Other}
SessionPaths == {<<"n">>, <<"n", "a">>}

NoSnapshot == [T |-> [heap |-> <<>>, tmap |-> <<>>, emitted |-> <<>>],
               index |-> 0, entries |-> <<>>]
Snapshot == [T |-> Target, index |-> s_HistoryIndex, entries |-> s_HistoryEntries]

InitSession ==
    /\ heap = InitHeap
    /\ tmap = InitMap
    /\ s_HistoryIndex = 0
    /\ s_HistoryEntries = <<>>
    /\ s_Transaction = Undefined
    /\ ret = Returned("load", Undef)
    /\ console = <<>>
    /\ emitted = <<>>
    /\ nCalls = 0
    /\ scen = [pc |-> "free", before |-> NoSnapshot, settled |-> TRUE,
               distinct |-> TRUE, independent |-> TRUE, returned |-> TRUE]

\* the open transaction holds an action that is not committed yet
Unsettled == s_Transaction # Undefined /\ s_Transaction.m_Actions # <<>>

NoteMutation ==
    scen' = [pc |-> "free", before |-> NoSnapshot, settled |-> scen.settled,
             distinct |-> scen.distinct
                          /\ (IsCommit => Distinct(LastEntry(s_HistoryEntries').m_Actions)),
             independent |-> scen.independent
                          /\ (IsCommit => Independent(LastEntry(s_HistoryEntries').m_Actions)),
             returned |-> scen.returned /\ ~ret'.threw]

NoteCommit ==
    scen' = [pc |-> "free", before |-> NoSnapshot, settled |-> scen.settled,
             distinct |-> scen.distinct
                          /\ (IsCommit => Distinct(LastEntry(s_HistoryEntries').m_Actions)),
             independent |-> scen.independent
                          /\ (IsCommit => Independent(LastEntry(s_HistoryEntries').m_Actions)),
             returned |-> scen.returned]

NoteStart == scen' = [scen EXCEPT !.pc = "free", !.before = NoSnapshot]

NoteUndo ==
    scen' = [pc |-> IF ret'.threw THEN "free" ELSE "undone",
             before |-> IF ret'.threw THEN NoSnapshot ELSE Snapshot,
             settled |-> scen.settled /\ ~Unsettled,
             distinct |-> scen.distinct,
             independent |-> scen.independent,
             returned |-> scen.returned]

NoteRedo ==
    scen' = [pc |-> IF scen.pc = "undone" THEN "redone" ELSE "free",
             before |-> IF scen.pc = "undone" THEN scen.before ELSE NoSnapshot,
             settled |-> scen.settled /\ ~Unsettled,
             distinct |-> scen.distinct,
             independent |-> scen.independent,
             returned |-> scen.returned]

NextSession ==
    \/ \E p \in SessionPaths, w \in Writes, t \in Texts :
          updateValue(p, w[1], t, Supplied, w[2]) /\ NoteMutation
    \/ \E k \in MapKeys, w \in Writes, t \in Texts, d \in SessionDatas :
          updateMap(k, w[1], t, d, w[2]) /\ NoteMutation
    \/ undo /\ NoteUndo
    \/ redo /\ NoteRedo
    \/ \E t \in Texts : startTransaction(t) /\ NoteStart
    \/ commitTransaction /\ NoteCommit

SpecSession == InitSession /\ [][NextSession]_vars

\* the metadata of the action pushed last into an entry that holds actions
LastPushed(entry) == entry.m_Actions[Len(entry.m_Actions)].m_Data

(***************************************************************************)
(* C11: after every undo() that returns, canRedo() is true and             *)
(* getRedoPreview() returns the metadata of the entry just undone (of the  *)
(* action pushed last into it); after every redo() that returns, canUndo() *)
(* is true and getUndoPreview() returns the metadata of the entry just     *)
(* redone.                                                                 *)
(***************************************************************************)
C11_PreviewAfterMove ==
    [][/\ ret'.op = "undo" /\ ~ret'.threw =>
             /\ canRedo'
             /\ ~getRedoPreview'.threw
             /\ getRedoPreview'.value
                   = HistoryEntry_data(EntryAt(s_HistoryEntries, s_HistoryIndex - 1))
             /\ EntryAt(s_HistoryEntries, s_HistoryIndex - 1).m_Actions # <<>> =>
                   getRedoPreview'.value
                      = LastPushed(EntryAt(s_HistoryEntries, s_HistoryIndex - 1))
       /\ ret'.op = "redo" /\ ~ret'.threw =>
             /\ canUndo'
             /\ ~getUndoPreview'.threw
             /\ getUndoPreview'.value
                   = HistoryEntry_data(EntryAt(s_HistoryEntries, s_HistoryIndex))
             /\ EntryAt(s_HistoryEntries, s_HistoryIndex).m_Actions # <<>> =>
                   getUndoPreview'.value
                      = LastPushed(EntryAt(s_HistoryEntries, s_HistoryIndex))]_vars

\* a transaction whose two actions carry different entity ids has just been
\* undone, and the redo preview shows the id pushed last
C11_Witness ==
    /\ ret.op = "undo" /\ ~ret.threw
    /\ canRedo
    /\ Len(EntryAt(s_HistoryEntries, s_HistoryIndex).m_Actions) = 2
    /\ EntryAt(s_HistoryEntries, s_HistoryIndex).m_Actions[1].m_Data = Other
    /\ getRedoPreview.value = Supplied

\* the targets and the history store are what the caller noted before the undo()
AsBefore ==
    /\ heap = scen.before.T.heap
    /\ tmap = scen.before.T.tmap
    /\ s_HistoryIndex = scen.before.index
    /\ s_HistoryEntries = scen.before.entries

Sound == scen.settled /\ scen.independent /\ scen.returned

OnlyAction(i) == EntryAt(s_HistoryEntries, i).m_Actions[1]

\* what a location holds when it holds the slot v: present with the value, or absent
Holding(v) ==
    IF v.exists THEN [threw |-> FALSE, value |-> v.value, exists |-> TRUE]
    ELSE [threw |-> FALSE, value |-> Undef, exists |-> FALSE]

Callbacks == {"f", "g", "boom"}
EmitPaths == {<<"a">>}
EmitWrites == {<<"y", FALSE>>}

\* the action whose handle the caller holds after a mutation call
Handle ==
    IF s_Transaction # Undefined
    THEN s_Transaction.m_Actions[Len(s_Transaction.m_Actions)]
    ELSE LastPushedAction(s_HistoryEntries)

InitEmit ==
    /\ heap = InitHeap
    /\ tmap = InitMap
    /\ s_HistoryIndex = 0
    /\ s_HistoryEntries = <<>>
    /\ s_Transaction = Undefined
    /\ ret = Returned("load", Undef)
    /\ console = <<>>
    /\ emitted = <<>>
    /\ nCalls = 0
    /\ scen = [pc |-> "pre"]

NextEmit ==
    \/ \E t \in Texts :
          /\ scen.pc = "pre"
          /\ startTransaction(t)
          /\ scen' = [pc |-> "open"]
    \/ \E p \in EmitPaths, w \in EmitWrites, t \in Texts :
          /\ scen.pc \in {"pre", "open"}
          /\ updateValue(p, w[1], t, Supplied, w[2])
          /\ scen' = [pc |-> IF scen.pc = "pre" THEN "done" ELSE "open"]
    \/ \E k \in MapKeys, w \in EmitWrites, t \in Texts :
          /\ scen.pc \in {"pre", "open"}
          /\ updateMap(k, w[1], t, Supplied, w[2])
          /\ scen' = [pc |-> IF scen.pc = "pre" THEN "done" ELSE "open"]
    \/ \E f \in Callbacks :
          /\ ret.op \in {"updateValue", "updateMap", "emit"}
          /\ \A i \in DOMAIN Handle.m_Emits : Handle.m_Emits[i] # f
          /\ emit(f)
          /\ UNCHANGED scen
    \/ /\ scen.pc = "open"
       /\ commitTransaction
       /\ scen' = [pc |-> "done"]
    \/ /\ scen.pc = "done"
       /\ undo
       /\ UNCHANGED scen
    \/ /\ scen.pc = "done"
       /\ redo
       /\ UNCHANGED scen

SpecEmit == InitEmit /\ [][NextEmit]_vars

\* the callbacks registered on the actions from the i-th on, in the order
\* of the actions and, for one action, of registration
RECURSIVE Registered(_, _)
Registered(actions, i) ==
    IF i > Len(actions) THEN <<>>
    ELSE [k \in DOMAIN actions[i].m_Emits |-> [action |-> i, f |-> actions[i].m_Emits[k]]]
         \o Registered(actions, i + 1)

\* the entry an undo() or redo() step applies, and the slots it applies
Moved ==
    IF ret'.op = "undo" THEN EntryAt(s_HistoryEntries, s_HistoryIndex - 1)
    ELSE EntryAt(s_HistoryEntries, s_HistoryIndex)
Direction == IF ret'.op = "undo" THEN Old ELSE New

\* the targets the k-th callback invoked by the step saw
Seen(k) == [heap |-> emitted'[k].heap, tmap |-> emitted'[k].tmap, emitted |-> <<>>]

\* the k-th callback invoked is the k-th registered, and it saw the value of
\* its action written
InvokedAfterWrite(k, reg) ==
    /\ emitted'[k].f = reg.f
    /\ ReadLoc(Seen(k), Moved.m_Actions[reg.action].kind, Moved.m_Actions[reg.action].loc)
          = Holding(Slot(Moved.m_Actions[reg.action], Direction))

(***************************************************************************)
(* C14: every callback registered with emit on the handle returned by a    *)
(* mutation call is invoked exactly once on each later undo() and each     *)
(* later redo() of the entry holding that action (that returns), callbacks *)
(* of one action run in registration order, and each runs after that       *)
(* action's value has been written to the target.                          *)
(***************************************************************************)
C14_EmitOncePerApply ==
    [][ret'.op \in {"undo", "redo"} /\ ~ret'.threw =>
          /\ Len(emitted') = Len(Registered(Moved.m_Actions, 1))
          /\ \A k \in DOMAIN emitted' :
                InvokedAfterWrite(k, Registered(Moved.m_Actions, 1)[k])]_vars

\* a transaction of two actions, the first with callbacks g then f, the
\* second with a callback, has just been redone, and g ran before f
C14_Witness ==
    /\ ret.op = "redo" /\ ~ret.threw
    /\ Len(EntryAt(s_HistoryEntries, s_HistoryIndex - 1).m_Actions) = 2
    /\ EntryAt(s_HistoryEntries, s_HistoryIndex - 1).m_Actions[1].m_Emits = <<"g", "f">>
    /\ Len(emitted) = 3
    /\ emitted[1].f = "g"
    /\ emitted[2].f = "f"

\* the position, among the registered callbacks from the k-th on, of the
\* first one that throws
RECURSIVE FirstFault(_, _)
FirstFault(reg, k) ==
    IF k > Len(reg) THEN 0
    ELSE IF Throws(reg[k].f) THEN k ELSE FirstFault(reg, k + 1)

\* the targets after the apply closures of the first n actions ran
RECURSIVE ApplyFirst(_, _, _, _)
ApplyFirst(T, actions, n, value) ==
    IF n = 0 THEN T
    ELSE m_Apply(ApplyFirst(T, actions, n - 1, value), actions[n], Slot(actions[n], value)).T

\* the step invoked the registered callbacks up to the faulting one (position
\* at), and applied the actions up to the one that registered it
StoppedAt(reg, at) ==
    /\ [k \in DOMAIN emitted' |-> emitted'[k].f] = [k \in 1 .. at |-> reg[k].f]
    /\ heap' = ApplyFirst(Target, Moved.m_Actions, reg[at].action, Direction).heap
    /\ tmap' = ApplyFirst(Target, Moved.m_Actions, reg[at].action, Direction).tmap

(***************************************************************************)
(* C19: when an emit callback faults during undo() (or redo()), the fault  *)
(* propagates to the caller, the remaining callbacks of that action and    *)
(* the remaining actions of the entry are not applied, the actions before  *)
(* the faulting point stay applied, and the cursor is left at its value    *)
(* before the call.                                                        *)
(***************************************************************************)
C19_EmitFault ==
    [][/\ ret'.op \in {"undo", "redo"}
       /\ FirstFault(Registered(Moved.m_Actions, 1), 1) > 0
       => /\ ret'.threw
          /\ UNCHANGED <<s_HistoryIndex, s_HistoryEntries, s_Transaction>>
          /\ StoppedAt(Registered(Moved.m_Actions, 1),
                       FirstFault(Registered(Moved.m_Actions, 1), 1))]_vars

\* undo() of a transaction of two actions has just thrown in the first
\* callback of the first action: the first action is undone, its second
\* callback did not run, the second action is not undone
C19_Witness ==
    /\ ret.op = "undo" /\ ret.threw
    /\ s_HistoryIndex = 1
    /\ Len(s_HistoryEntries[1].m_Actions) = 2
    /\ s_HistoryEntries[1].m_Actions[1].m_Emits = <<"boom", "f">>
    /\ s_HistoryEntries[1].m_Actions[1].loc # s_HistoryEntries[1].m_Actions[2].loc
    /\ Len(emitted) = 1
    /\ ReadLoc(Target, s_HistoryEntries[1].m_Actions[1].kind, s_HistoryEntries[1].m_Actions[1].loc)
          = Holding(s_HistoryEntries[1].m_Actions[1].m_OldValue)
    /\ ReadLoc(Target, s_HistoryEntries[1].m_Actions[2].kind, s_HistoryEntries[1].m_Actions[2].loc)
          = Holding(s_HistoryEntries[1].m_Actions[2].m_NewValue)

(***************************************************************************)
(* Entry objects: any sequence of calls of the exported functions in which *)
(* the caller passes a different description to every call that can        *)
(* construct an entry, so that m_Text tells the entry objects apart.  The  *)
(* caller notes whether a call of commitTransaction came right after       *)
(* another one.                                                            *)
(***************************************************************************)
Labels == <<"t0", "t1", "t2", "t3", "t4", "t5", "t6", "t7">>
Label == Labels[nCalls + 1]
IdentityPaths == {<<"a">>}

InitIdentity ==
    /\ heap = InitHeap
    /\ tmap = InitMap
    /\ s_HistoryIndex = 0
    /\ s_HistoryEntries = <<>>
    /\ s_Transaction = Undefined
    /\ ret = Returned("load", Undef)
    /\ console = <<>>
    /\ emitted = <<>>
    /\ nCalls = 0
    /\ scen = [pc |-> "free", again |-> FALSE]

NoteAgain == scen' = [pc |-> "free", again |-> ret.op = "commitTransaction"]
NoteOther == scen' = [pc |-> "free", again |-> FALSE]

NextIdentity ==
    \/ \E p \in IdentityPaths, w \in Writes :
          updateValue(p, w[1], Label, Supplied, w[2]) /\ NoteOther
    \/ \E k \in MapKeys, w \in Writes :
          updateMap(k, w[1], Label, Supplied, w[2]) /\ NoteOther
    \/ undo /\ NoteOther
    \/ redo /\ NoteOther
    \/ startTransaction(Label) /\ NoteOther
    \/ commitTransaction /\ NoteAgain

SpecIdentity == InitIdentity /\ [][NextIdentity]_vars

(***************************************************************************)
(* C15: each entry is committed to the history sequence exactly once: no   *)
(* entry object occurs at two indices of the sequence in any reachable     *)
(* state (nor is the entry of the open transaction in the sequence), and   *)
(* after commitTransaction the transaction slot is closed, so that a       *)
(* second commitTransaction does not append the same entry again.          *)
(***************************************************************************)
C15_CommittedOnce ==
    /\ [](\A i, j \in DOMAIN s_HistoryEntries :
             i # j => s_HistoryEntries[i].m_Text # s_HistoryEntries[j].m_Text)
    /\ [](s_Transaction # Undefined =>
             \A i \in DOMAIN s_HistoryEntries :
                s_HistoryEntries[i].m_Text # s_Transaction.m_Text)
    /\ [][ret'.op = "commitTransaction" /\ ~ret'.threw => s_Transaction' = Undefined]_vars
    /\ [][ret.op = "commitTransaction" /\ ret'.op = "commitTransaction" =>
             UNCHANGED <<s_HistoryEntries, s_HistoryIndex>>]_vars

\* commitTransaction has just been called right after a commitTransaction,
\* and the history holds two entries with the same actions
C15_Witness ==
    /\ scen.again
    /\ Len(s_HistoryEntries) = 2
    /\ s_HistoryEntries[1].m_Actions = s_HistoryEntries[2].m_Actions
    /\ s_HistoryEntries[1].m_Actions # <<>>

\* actions i and j of a sequence wrote the same location
SameLocation(actions, i, j) ==
    actions[i].kind = actions[j].kind /\ actions[i].loc = actions[j].loc

\* action i is the last of several actions that wrote its location
LastOfSeveral(actions, i) ==
    /\ \E j \in 1 .. i - 1 : SameLocation(actions, i, j)
    /\ \A j \in i + 1 .. Len(actions) : ~SameLocation(actions, i, j)

\* the action that wrote the location of action i just before it
WriterBefore(actions, i) ==
    actions[CHOOSE j \in 1 .. i - 1 :
               /\ SameLocation(actions, i, j)
               /\ \A k \in j + 1 .. i - 1 : ~SameLocation(actions, i, k)]

\* the slot a location holds after the slot v was applied to it
SlotAfter(v) == IF v.exists THEN v ELSE ValueInfo(Undef, FALSE)

NextAuto ==
    \/ \E p \in Paths, w \in Writes, t \in Texts :
          updateValue(p, w[1], t, Supplied, w[2]) /\ UNCHANGED scen
    \/ \E k \in MapKeys, w \in Writes, t \in Texts :
          updateMap(k, w[1], t, Supplied, w[2]) /\ UNCHANGED scen
    \/ undo /\ UNCHANGED scen
    \/ redo /\ UNCHANGED scen

SpecAuto == Init /\ [][NextAuto]_vars

\* the targets before the first mutation
InitTarget == [heap |-> InitHeap, tmap |-> InitMap, emitted |-> <<>>]

\* the targets T with the new values of the first n entries applied in
\* sequence order
RECURSIVE Replay(_, _, _)
Replay(T, entries, n) ==
    IF n = 0 THEN T
    ELSE HistoryEntry_apply(Replay(T, entries, n - 1), entries[n]).T

(***************************************************************************)
(* C17: for every sequence of auto-committed mutation calls (metadata      *)
(* supplied, no transaction ever opened), undo() and redo() calls in any   *)
(* interleaving, the target always equals the initial target with the new  *)
(* values of the entries at index < cursor applied in sequence order;      *)
(* entries at index >= cursor have no effect on the target.                *)
(***************************************************************************)
C17_TargetIsReplay ==
    /\ heap = Replay(InitTarget, s_HistoryEntries, s_HistoryIndex).heap
    /\ tmap = Replay(InitTarget, s_HistoryEntries, s_HistoryIndex).tmap

\* after three mutation calls the history holds two entries; the first has
\* just been redone and the second is undone
C17_Witness ==
    /\ ret.op = "redo" /\ ~ret.threw
    /\ s_HistoryIndex = 1
    /\ Len(s_HistoryEntries) = 2
    /\ nCalls = 3
    /\ heap # InitHeap

C20_UndoRedoFrame ==
    [][ret'.op \in {"undo", "redo"} =>
          /\ UNCHANGED <<s_HistoryEntries, s_Transaction>>
          /\ ~ret'.threw =>
                /\ s_HistoryIndex' = s_HistoryIndex + (IF ret'.op = "undo" THEN -1 ELSE 1)
                /\ heap' = ApplyFirst(Target, Moved.m_Actions, Len(Moved.m_Actions),
                                      Direction).heap
                /\ tmap' = ApplyFirst(Target, Moved.m_Actions, Len(Moved.m_Actions),
                                      Direction).tmap]_vars

\* redo() has just returned while the open transaction held an action
C20_Witness ==
    /\ ret.op = "redo" /\ ~ret.threw
    /\ s_Transaction # Undefined
    /\ Len(s_Transaction.m_Actions) = 1
    /\ s_HistoryIndex = 1
    /\ heap # InitHeap

(***************************************************************************)
(* The transaction slot: s_Transaction is undefined (closed) or holds the  *)
(* entry in progress (open), history.ts:192, 304, 318.                     *)
(***************************************************************************)
Open(transaction) == transaction # Undefined

\* the step is a startTransaction call that returned true
Started == ret'.op = "startTransaction" /\ ret'.value = TRUE

\* the step is a commitTransaction call that returned
CommitCompleted == ret'.op = "commitTransaction" /\ ~ret'.threw

(***************************************************************************)
(* C21: the transaction slot changes only through startTransaction (closed *)
(* to open) and commitTransaction (open to closed): a closed slot stays    *)
(* closed in every step that is not a startTransaction returning true; an  *)
(* open slot stays open, holding the same entry with its description and   *)
(* the actions pushed so far, across mutation, undo, redo, failing         *)
(* commitTransaction and startTransaction calls, and is closed by the      *)
(* commitTransaction that completes; so at most one transaction is open.   *)
(***************************************************************************)
C21_TransactionSlot ==
    [][/\ ~Open(s_Transaction) =>
             IF Started THEN s_Transaction' \in {HistoryEntry(t) : t \in Texts}
             ELSE ~Open(s_Transaction')
       /\ Open(s_Transaction) =>
             IF CommitCompleted THEN ~Open(s_Transaction')
             ELSE /\ Open(s_Transaction')
                  /\ ~Started
                  /\ s_Transaction'.m_Text = s_Transaction.m_Text
                  /\ IsPrefix(s_Transaction.m_Actions, s_Transaction'.m_Actions)]_vars

\* undo() has just returned while the transaction opened after the first
\* commit held an action
C21_Witness ==
    /\ ret.op = "undo" /\ ~ret.threw
    /\ Open(s_Transaction)
    /\ Len(s_Transaction.m_Actions) = 1
    /\ Len(s_HistoryEntries) = 1

(***************************************************************************)
(* Paths that do not resolve: the value an intermediate segment of the     *)
(* path leads to is undefined (the property is absent), or a primitive.    *)
(***************************************************************************)
RECURSIVE Dangling(_, _, _)
Dangling(h, obj, path) ==
    IF Len(path) = 1 THEN obj = Undef
    ELSE obj = Undef \/ Dangling(h, PropValue(h, obj, path[1]), Tail(path))

\* an intermediate segment leads to a primitive
ThroughPrimitive(path) == ~Resolves(path) /\ ~Dangling(heap, RootRef, path)

\* the call faulted and changed nothing
FaultedBeforeChange ==
    /\ ret'.threw
    /\ UNCHANGED <<heap, tmap, s_HistoryEntries, s_HistoryIndex, s_Transaction>>

InitHandle ==
    /\ heap = InitHeap
    /\ tmap = InitMap
    /\ s_HistoryIndex = 0
    /\ s_HistoryEntries = <<>>
    /\ s_Transaction = Undefined
    /\ ret = Returned("load", Undef)
    /\ console = <<>>
    /\ emitted = <<>>
    /\ nCalls = 0
    /\ scen = [pc |-> "pre", invoked |-> {}, undone |-> FALSE]

\* the callbacks the step invoked, each with the action it is registered on
InvokedNow ==
    {Registered(Moved.m_Actions, 1)[k] : k \in DOMAIN emitted'}

NoteInvoked ==
    scen' = [scen EXCEPT !.invoked = scen.invoked \cup InvokedNow,
                         !.undone = scen.undone \/ ret'.op = "undo"]

NextHandle ==
    \/ \E t \in Texts :
          /\ scen.pc = "pre"
          /\ startTransaction(t)
          /\ scen' = [scen EXCEPT !.pc = "open"]
    \/ \E p \in EmitPaths, w \in EmitWrites, t \in Texts :
          /\ scen.pc \in {"pre", "open"}
          /\ updateValue(p, w[1], t, Supplied, w[2])
          /\ scen' = [scen EXCEPT !.pc = IF scen.pc = "pre" THEN "done" ELSE "open"]
    \/ \E k \in MapKeys, w \in EmitWrites, t \in Texts :
          /\ scen.pc \in {"pre", "open"}
          /\ updateMap(k, w[1], t, Supplied, w[2])
          /\ scen' = [scen EXCEPT !.pc = IF scen.pc = "pre" THEN "done" ELSE "open"]
    \/ \E f \in Callbacks :
          /\ ret.op \in {"updateValue", "updateMap", "emit"}
          /\ \A i \in DOMAIN Handle.m_Emits : Handle.m_Emits[i] # f
          /\ emit(f)
          /\ UNCHANGED scen
    \/ /\ scen.pc = "open"
       /\ commitTransaction
       /\ scen' = [scen EXCEPT !.pc = "done"]
    \/ /\ scen.pc = "done"
       /\ undo
       /\ NoteInvoked
    \/ /\ scen.pc = "done"
       /\ redo
       /\ NoteInvoked

SpecHandle == InitHandle /\ [][NextHandle]_vars

(***************************************************************************)
(* C23: a callback registered with emit on the handle returned by a        *)
(* mutation call is not invoked for the initial forward application        *)
(* performed inside that mutation call: no mutation call invokes a         *)
(* callback.  Its first invocation is on the first later undo() of the     *)
(* entry: a step that invokes a callback not invoked before is the first   *)
(* undo() of the entry, and the first undo() that returns invokes every    *)
(* callback registered on the entry.                                       *)
(***************************************************************************)
C23_FirstInvokedOnUndo ==
    [][/\ IsMutation => emitted' = <<>>
       /\ ret'.op \in {"commitTransaction", "startTransaction", "emit"} => emitted' = <<>>
       /\ ret'.op \in {"undo", "redo"} =>
             /\ \A c \in InvokedNow :
                   c \notin scen.invoked => ret'.op = "undo" /\ ~scen.undone
             /\ ret'.op = "undo" /\ ~ret'.threw /\ ~scen.undone =>
                   InvokedNow = {Registered(Moved.m_Actions, 1)[k] :
                                    k \in DOMAIN Registered(Moved.m_Actions, 1)}]_vars

\* the first undo() of an auto-committed entry has just invoked, for the
\* first time, the two callbacks chained to the mutation call
C23_Witness ==
    /\ ret.op = "undo" /\ ~ret.threw
    /\ Len(s_HistoryEntries) = 1
    /\ Len(s_HistoryEntries[1].m_Actions) = 1
    /\ s_HistoryEntries[1].m_Actions[1].m_Emits = <<"f", "g">>
    /\ [k \in DOMAIN emitted |-> emitted[k].f] = <<"f", "g">>
    /\ scen.invoked = {[action |-> 1, f |-> "f"], [action |-> 1, f |-> "g"]}

(***************************************************************************)
(* C24: during undo() or redo() of an entry with several actions, the      *)
(* callbacks of each action run immediately after that action's write and  *)
(* before the next action's write: a callback registered on the i-th       *)
(* action sees the targets with the slots of the actions 1..i written and  *)
(* no other, so a location written only by later actions still holds what  *)
(* it held before the call.                                                *)
(***************************************************************************)
WrittenUpTo(actions, i, kind, loc) ==
    \E j \in 1 .. i : actions[j].kind = kind /\ actions[j].loc = loc

C24_EmitBetweenWrites ==
    [][ret'.op \in {"undo", "redo"} /\ Moved # Undefined =>
          \A k \in DOMAIN emitted' :
             /\ Seen(k) = ApplyFirst(Target, Moved.m_Actions,
                                     Registered(Moved.m_Actions, 1)[k].action, Direction)
             /\ \A j \in DOMAIN Moved.m_Actions :
                   ~WrittenUpTo(Moved.m_Actions, Registered(Moved.m_Actions, 1)[k].action,
                                Moved.m_Actions[j].kind, Moved.m_Actions[j].loc)
                   => ReadLoc(Seen(k), Moved.m_Actions[j].kind, Moved.m_Actions[j].loc)
                         = ReadLoc(Target, Moved.m_Actions[j].kind, Moved.m_Actions[j].loc)]_vars

\* undo() of a transaction that wrote the property a and then the key k1 has
\* just returned; the callback of the first action saw a restored and k1
\* still set, the callback of the second saw both restored
C24_Witness ==
    /\ ret.op = "undo" /\ ~ret.threw
    /\ Len(s_HistoryEntries) = 1
    /\ Len(s_HistoryEntries[1].m_Actions) = 2
    /\ s_HistoryEntries[1].m_Actions[1].kind = "value"
    /\ s_HistoryEntries[1].m_Actions[2].kind = "map"
    /\ Len(emitted) = 2
    /\ emitted[1].heap = InitHeap /\ emitted[1].tmap # InitMap
    /\ emitted[2].heap = InitHeap /\ emitted[2].tmap = InitMap

(***************************************************************************)
(* Two runs side by side.  The caller makes every call twice: on a Map     *)
(* through this history (the variables), and on a record holding the same  *)
(* properties through a history of its own, with updateValue and the       *)
(* one-segment path of the key in place of updateMap.  The second run is   *)
(* kept in scen.sys: the record, the index, the entries, the transaction   *)
(* and whether the last call threw; the operators below are the exported   *)
(* functions as functions of that state.                                   *)
(***************************************************************************)
MirrorKeys == {"k1", "k2"}
InitPairs == [k \in {"k1"} |-> "x"]

\* transaction.apply() ran with outcome r, then s_CommitTransaction
Run_ApplyThenCommit(sys, transaction, r) ==
    IF r.threw THEN [sys EXCEPT !.T = r.T, !.threw = TRUE]
    ELSE [sys EXCEPT !.T = r.T, !.threw = FALSE,
                     !.entries = s_CommitTransaction(sys.entries, sys.index, transaction).entries,
                     !.index = s_CommitTransaction(sys.entries, sys.index, transaction).index]

\* the action is pushed to the open transaction, historyAction.apply() ran
\* with outcome r
Run_ApplyInTransaction(sys, transaction, r) ==
    [sys EXCEPT !.T = r.T, !.threw = r.threw, !.transaction = transaction]

Run_RouteAction(sys, historyAction, text) ==
    IF sys.transaction = Undefined
    THEN Run_ApplyThenCommit(sys, Push(HistoryEntry(text), historyAction),
                             HistoryEntry_apply(sys.T, Push(HistoryEntry(text), historyAction)))
    ELSE Run_ApplyInTransaction(sys, Push(sys.transaction, historyAction),
                                HistoryAction_apply(sys.T, historyAction, New))

Run_UpdateValueFrom(sys, oldValue, path, value, text, data, remove) ==
    IF oldValue.threw THEN [sys EXCEPT !.threw = TRUE]
    ELSE Run_RouteAction(sys,
                         HistoryAction("value", path,
                                       ValueInfo(oldValue.value, oldValue.exists),
                                       ValueInfo(value, ~remove), data),
                         text)

\* updateValue(target, path, value, text, data, remove), history.ts:195-224
Run_updateValue(sys, path, value, text, data, remove) ==
    Run_UpdateValueFrom(sys, s_GetValue(sys.T.heap, RootRef, path),
                        path, value, text, data, remove)

Run_MoveIndex(sys, r, step) ==
    [sys EXCEPT !.T = r.T, !.threw = r.threw,
                !.index = IF r.threw THEN sys.index ELSE sys.index + step]

\* undo, history.ts:270-274
Run_undo(sys) ==
    IF EntryAt(sys.entries, sys.index - 1) = Undefined THEN [sys EXCEPT !.threw = TRUE]
    ELSE Run_MoveIndex(sys, HistoryEntry_undo(sys.T, EntryAt(sys.entries, sys.index - 1)), -1)

\* redo, history.ts:287-291
Run_redo(sys) ==
    IF EntryAt(sys.entries, sys.index) = Undefined THEN [sys EXCEPT !.threw = TRUE]
    ELSE Run_MoveIndex(sys, HistoryEntry_redo(sys.T, EntryAt(sys.entries, sys.index)), 1)

\* startTransaction(text), history.ts:298-305
Run_startTransaction(sys, text) ==
    IF sys.transaction # Undefined THEN [sys EXCEPT !.threw = FALSE]
    ELSE [sys EXCEPT !.threw = FALSE, !.transaction = HistoryEntry(text)]

Run_CommitLogged(sys, l) ==
    IF l.threw THEN [sys EXCEPT !.threw = TRUE]
    ELSE [sys EXCEPT !.threw = FALSE, !.transaction = Undefined,
                     !.entries = s_CommitTransaction(sys.entries, sys.index,
                                                     sys.transaction).entries,
                     !.index = s_CommitTransaction(sys.entries, sys.index,
                                                   sys.transaction).index]

\* commitTransaction, history.ts:311-319
Run_commitTransaction(sys) ==
    IF sys.transaction = Undefined THEN [sys EXCEPT !.threw = FALSE]
    ELSE Run_CommitLogged(sys, HistoryEntry_log(sys.transaction))

InitMirror ==
    /\ heap = InitHeap
    /\ tmap = InitPairs
    /\ s_HistoryIndex = 0
    /\ s_HistoryEntries = <<>>
    /\ s_Transaction = Undefined
    /\ ret = Returned("load", Undef)
    /\ console = <<>>
    /\ emitted = <<>>
    /\ nCalls = 0
    /\ scen = [pc |-> "free",
               sys |-> [T |-> [heap |-> [r \in {RootRef} |-> InitPairs],
                               tmap |-> InitMap, emitted |-> <<>>],
                        index |-> 0, entries |-> <<>>, transaction |-> Undefined,
                        threw |-> FALSE]]

NextMirror ==
    \/ \E k \in MirrorKeys, w \in RoundTripWrites, t \in Texts :
          /\ updateMap(k, w[1], t, Supplied, w[2])
          /\ scen' = [scen EXCEPT !.sys = Run_updateValue(scen.sys, <<k>>, w[1], t,
                                                         Supplied, w[2])]
    \/ undo /\ scen' = [scen EXCEPT !.sys = Run_undo(scen.sys)]
    \/ redo /\ scen' = [scen EXCEPT !.sys = Run_redo(scen.sys)]
    \/ \E t \in Texts :
          /\ startTransaction(t)
          /\ scen' = [scen EXCEPT !.sys = Run_startTransaction(scen.sys, t)]
    \/ commitTransaction /\ scen' = [scen EXCEPT !.sys = Run_commitTransaction(scen.sys)]

SpecMirror == InitMirror /\ [][NextMirror]_vars

(***************************************************************************)
(* C25: updateMap on a key-value mapping and updateValue with a            *)
(* single-segment path on a record behave identically: after the same      *)
(* sequence of mutation, transaction, undo and redo calls (metadata        *)
(* supplied) both runs have the same cursor, the same history length and   *)
(* the same transaction-slot state, the last call threw in both or in      *)
(* neither, and the keys and values of the Map are the own properties and  *)
(* values of the record.                                                   *)
(***************************************************************************)
C25_MapAsRecord ==
    /\ s_HistoryIndex = scen.sys.index
    /\ Len(s_HistoryEntries) = Len(scen.sys.entries)
    /\ Open(s_Transaction) = Open(scen.sys.transaction)
    /\ ret.threw = scen.sys.threw
    /\ tmap = Props(scen.sys.T.heap, RootRef)

\* the undo of a write over a stored undefined has just brought back, in
\* both runs, the key holding undefined, beside a key that was removed
C25_Witness ==
    /\ ret.op = "undo" /\ ~ret.threw
    /\ DOMAIN tmap = {"k2"}
    /\ tmap["k2"] = Undef
    /\ DOMAIN Props(scen.sys.T.heap, RootRef) = {"k2"}
    /\ s_HistoryIndex = 2
    /\ Len(s_HistoryEntries) = 3

(***************************************************************************)
(* Logging: mutation calls with and without a description, for two         *)
(* entities, with and without a transaction, then undo and redo.           *)
(***************************************************************************)
LogTexts == {"t", NoText}
LogWrites == {<<"y", FALSE>>}

NextLog ==
    \/ \E p \in EmitPaths, w \in LogWrites, t \in LogTexts :
          updateValue(p, w[1], t, Supplied, w[2]) /\ UNCHANGED scen
    \/ \E k \in MapKeys, w \in LogWrites, t \in LogTexts, d \in SessionDatas :
          updateMap(k, w[1], t, d, w[2]) /\ UNCHANGED scen
    \/ undo /\ UNCHANGED scen
    \/ redo /\ UNCHANGED scen
    \/ \E t \in LogTexts : startTransaction(t) /\ UNCHANGED scen
    \/ commitTransaction /\ UNCHANGED scen

SpecLog == Init /\ [][NextLog]_vars

\* the entity ids of the actions, in push order
EntityNumbers(actions) == [i \in DOMAIN actions |-> actions[i].m_Data.entity_number]

\* the step wrote exactly the line of the entry with the prefix, or nothing
\* when the entry has no description
LoggedOnce(entry, prefix) ==
    console' = IF entry.m_Text = NoText THEN <<>>
               ELSE <<Line(EntityNumbers(entry.m_Actions), prefix, entry.m_Text)>>

(***************************************************************************)
(* C26: each committed entry that has a description produces exactly one   *)
(* forward log line: an auto-committed mutation call logs the line of its  *)
(* entry (written by the apply that precedes the commit), a mutation call  *)
(* inside an open transaction logs nothing, and the commitTransaction that *)
(* commits logs one line with the entity ids of all the actions of the     *)
(* transaction in push order; every undo() and redo() that returns logs    *)
(* one line prefixed UNDO / REDO; no other call logs, and an entry without *)
(* description logs nothing.                                               *)
(***************************************************************************)
C26_OneLogLine ==
    [][/\ IsMutation /\ ~Open(s_Transaction) /\ ~ret'.threw =>
             /\ LoggedOnce(LastEntry(s_HistoryEntries'), "")
             /\ console' = HistoryEntry_apply(Target, LastEntry(s_HistoryEntries')).console
       /\ IsMutation /\ Open(s_Transaction) => console' = <<>>
       /\ ret'.op = "commitTransaction" /\ Open(s_Transaction) /\ ~ret'.threw =>
             /\ LoggedOnce(s_Transaction, "")
             /\ LastEntry(s_HistoryEntries') = s_Transaction
       /\ ret'.op = "undo" /\ ~ret'.threw => LoggedOnce(Moved, "UNDO ")
       /\ ret'.op = "redo" /\ ~ret'.threw => LoggedOnce(Moved, "REDO ")
       /\ ~IsCommit /\ ~(ret'.op \in {"undo", "redo"} /\ ~ret'.threw) => console' = <<>>]_vars

\* commitTransaction has just logged the one line of a transaction whose
\* actions were pushed for entity 2 and then for entity 1
C26_Witness ==
    /\ ret.op = "commitTransaction" /\ ~ret.threw
    /\ console = <<Line(<<2, 1>>, "", "t")>>
    /\ Len(s_HistoryEntries) = 1

(***************************************************************************)
(* Removal of what is not there: the location reads as absent, and the     *)
(* action of the call holds an absent old slot and an absent new slot.     *)
(***************************************************************************)
Absent(kind, loc) ==
    ~ReadLoc(Target, kind, loc).threw /\ ~ReadLoc(Target, kind, loc).exists

NoOpAction(kind, loc) ==
    HistoryAction(kind, loc, ValueInfo(Undef, FALSE), ValueInfo(Undef, FALSE), Supplied)

\* the call returned, left the targets as they were, and committed one entry
\* with the action in place of the redoable entries
RecordedOnly(kind, loc, text) ==
    /\ ~ret'.threw
    /\ heap' = heap /\ tmap' = tmap
    /\ s_HistoryIndex' = s_HistoryIndex + 1
    /\ s_HistoryEntries' = Append(SubSeq(s_HistoryEntries, 1, s_HistoryIndex),
                                  Push(HistoryEntry(text), NoOpAction(kind, loc)))

C28_DescriptionIgnored ==
    [][/\ IsMutation /\ Open(s_Transaction) =>
             /\ Label # s_Transaction.m_Text
             /\ s_Transaction'.m_Text = s_Transaction.m_Text
             /\ Len(s_Transaction'.m_Actions) = Len(s_Transaction.m_Actions) + 1
             /\ UNCHANGED <<s_HistoryEntries, s_HistoryIndex>>
             /\ console' = <<>>
       /\ ret'.op = "commitTransaction" /\ Open(s_Transaction) /\ ~ret'.threw =>
             /\ LastEntry(s_HistoryEntries') = s_Transaction
             /\ Len(s_HistoryEntries') = s_HistoryIndex + 1
             /\ console' = <<Line(EntityNumbers(s_Transaction.m_Actions), "",
                                  s_Transaction.m_Text)>>]_vars

\* the transaction started as t0 has been committed with the actions of two
\* mutation calls made with the descriptions t1 and t2
C28_Witness ==
    /\ ret.op = "commitTransaction" /\ ~ret.threw
    /\ nCalls = 3
    /\ Len(s_HistoryEntries) = 1
    /\ s_HistoryEntries[1].m_Text = "t0"
    /\ Len(s_HistoryEntries[1].m_Actions) = 2
    /\ console = <<Line(<<1, 1>>, "", "t0")>>

====
